---------------------------- MODULE Spec2Model ----------------------------
(* Model of mojov3.py: the SoC composition script for the Mojo V3 board.   *)
(* The script runs sequentially: the module-level `soc = BaseSoC()` at     *)
(* import, then main(), which parses the options, constructs a second      *)
(* BaseSoC and hands it to the Builder.  Platform.request, the PLL's       *)
(* create_clkout, add_csr/add_sdram and finalization are inherited from    *)
(* the base classes (not part of mojov3.py); they follow the contracts of  *)
(* the design document.                                                    *)
EXTENDS Integers, Sequences, FiniteSets, TLC

VARIABLES pc, cur, opts, platforms, constraints, crg, soc, err,
          pins, pll_reset, emitted, last

vars == <<pc, cur, opts, platforms, constraints, crg, soc, err,
          pins, pll_reset, emitted, last>>

-----------------------------------------------------------------------------
(* Bounds of the model *)

\* largest multiplier and divider of the PLL's ratio table
MaxMult == 8
MaxDiv == 8

-----------------------------------------------------------------------------
(* Program constants *)

\* pll.register_clkin(platform.request("clk50"), 50e6)
ClkinFreq == 50000000
\* def __init__(self, sys_clk_freq=int(66666666), **kwargs)
DefaultSysClkFreq == 66666666
\* size = 0x2000000
SdramSize == 33554432
\* l2_cache_size = 1024
L2CacheSize == 1024
\* l2_cache_min_data_width = 128
L2CacheMinDataWidth == 128
\* phase=90
SysPsPhase == 90
\* Platform.default_clk_period = 1e9/50e6 (ns)
DefaultClkPeriod == 1000000000 \div ClkinFreq

\* relative tolerance of a clock output: 1/MarginDiv of the target
MarginDiv == 100
\* size of one control/status register block
CsrPage == 2048
\* the SoC's fixed memory map
MemMap == [main_ram |-> 1073741824, csr |-> 1610612736]

\* the two constructions of BaseSoC: line 146 (import) and line 159 (main)
Builds == {"module", "main"}

\* option values the command line may supply
Freqs == {DefaultSysClkFreq, 999, 25000000, ClkinFreq, 100000000}
IntegratedMainRamSizes == {0, 8192, SdramSize}

-----------------------------------------------------------------------------
(* Resource catalog: _io *)

UserLeds == {<<"user_led", i>> : i \in 0..7}

Catalog == {<<"clk50", 0>>, <<"cpu_reset", 0>>} \cup UserLeds \cup
           {<<"serial", 0>>, <<"tx_busy", 0>>, <<"cclk", 0>>,
            <<"sdram_clock", 0>>, <<"sdram", 0>>}

\* a resource no catalog entry names
Unknown == <<"user_led", 8>>

NoSig == <<<<"none", 0>>, 0>>

-----------------------------------------------------------------------------
(* Platform: request with exclusive binding *)

\* platform = Platform() inside BaseSoC.__init__: one platform per BaseSoC
PlatformOf_shared(b) == "module"
PlatformOf(b) == b

NoBound == [r \in Catalog |-> 0]

\* request(name, index, loose): bound counts the bindings of each resource;
\* the signal returned is the resource with the number of its binding.
Request(bound, r, loose) ==
    IF r \notin Catalog
    THEN [err |-> "ResourceNotFoundError", sig |-> NoSig, bound |-> bound]
    ELSE IF bound[r] = 0
    THEN [err |-> "none", sig |-> <<r, 1>>,
          bound |-> [bound EXCEPT ![r] = 1]]
    ELSE IF loose
    THEN [err |-> "none", sig |-> <<r, bound[r]>>, bound |-> bound]
    ELSE [err |-> "ResourceAlreadyBoundError", sig |-> NoSig, bound |-> bound]

\* the requests of a list of resources, in order, stopping at the first error
RECURSIVE RequestSeq(_, _)
RequestSeq(bound, rs) ==
    IF rs = <<>>
    THEN [err |-> "none", sigs |-> <<>>, bound |-> bound]
    ELSE LET q == Request(bound, Head(rs), FALSE) IN
         IF q.err # "none"
         THEN [err |-> q.err, sigs |-> <<>>, bound |-> q.bound]
         ELSE LET t == RequestSeq(q.bound, Tail(rs)) IN
              [err |-> t.err, sigs |-> <<q.sig>> \o t.sigs, bound |-> t.bound]

\* request_all(name): every index registered under the name, in index order
RECURSIVE IndicesFrom(_, _)
IndicesFrom(name, i) ==
    IF <<name, i>> \in Catalog
    THEN <<<<name, i>>>> \o IndicesFrom(name, i + 1)
    ELSE <<>>
RequestAll(bound, name) == RequestSeq(bound, IndicesFrom(name, 0))

\* do_finalize looks clk50 up with loose=True
FinalizeLoose_strict == FALSE
FinalizeLoose == TRUE

\* add_period_constraint(self.lookup_request("clk50", loose=True), 1e9/50e6)
PeriodConstraints_perDomain(clk, domains) ==
    <<[clk |-> clk, period |-> DefaultClkPeriod]>> \o
    [i \in 1..Cardinality(domains) |-> [clk |-> clk, period |-> DefaultClkPeriod]]
PeriodConstraints(clk, domains) ==
    <<[clk |-> clk, period |-> DefaultClkPeriod]>>

-----------------------------------------------------------------------------
(* Clock/reset graph *)

Ratios == (1..MaxMult) \X (1..MaxDiv)

Abs(x) == IF x < 0 THEN -x ELSE x

\* the ratio m/d yields f from fin exactly
Exact(fin, f, r) == fin * r[1] = f * r[2]

\* the ratio m/d yields f from fin within the tolerance
WithinMargin(fin, f, r) ==
    Abs(fin * r[1] - f * r[2]) <= (f * r[2]) \div MarginDiv

SupportedRatios(fin, f) == {r \in Ratios : WithinMargin(fin, f, r)}

\* one ratio of error e1/d1 is no worse than another of error e2/d2
NoWorse(fin, f, r, q) ==
    Abs(fin * r[1] - f * r[2]) * q[2] <= Abs(fin * q[1] - f * q[2]) * r[2]

\* the supported ratio of least error, the smallest such
PllRatio(fin, f) ==
    LET S == SupportedRatios(fin, f)
        B == {r \in S : \A q \in S : NoWorse(fin, f, r, q)}
    IN CHOOSE r \in B : \A q \in B : r[1] <= q[1]

NoCrg == [state |-> "unconfigured", input |-> NoSig, input_freq |-> 0,
          domains |-> {}, reset_inputs |-> {}]

\* register_input(resource, frequency)
RegisterInput(c, sig, f) ==
    IF c.state # "unconfigured"
    THEN [err |-> "MultipleInputClockError", crg |-> c]
    ELSE [err |-> "none",
          crg |-> [c EXCEPT !.state = "clocked", !.input = sig, !.input_freq = f]]

\* create_domain(target_frequency, phase_offset, reset_less)
CreateDomain_afterFinal(c, name, f, phase, reset_less) ==
    [err |-> "none",
     crg |-> [c EXCEPT !.domains = @ \cup
                {[name |-> name, freq |-> f, phase |-> phase,
                  reset_less |-> reset_less, ratio |-> <<1, 1>>]}]]
CreateDomain(c, name, f, phase, reset_less) ==
    IF c.state = "finalized"
    THEN [err |-> "GraphFinalizedError", crg |-> c]
    ELSE IF SupportedRatios(c.input_freq, f) = {}
    THEN [err |-> "UnsupportedRatioError", crg |-> c]
    ELSE [err |-> "none",
          crg |-> [c EXCEPT !.domains = @ \cup
                     {[name |-> name, freq |-> f, phase |-> phase,
                       reset_less |-> reset_less,
                       ratio |-> PllRatio(c.input_freq, f)]}]]

\* finalize()
Finalize(c) ==
    IF c.state = "finalized"
    THEN [err |-> "GraphFinalizedError", crg |-> c]
    ELSE [err |-> "none", crg |-> [c EXCEPT !.state = "finalized"]]

\* pll.reset.eq(~platform.request("cpu_reset") | ~platform.request("cclk"))
InhibitInputs == <<<<"cpu_reset", 0>>, <<"cclk", 0>>>>
PllReset_and(cpu_reset, cclk) == (~cpu_reset) /\ (~cclk)
PllReset(cpu_reset, cclk) == (~cpu_reset) \/ (~cclk)

\* pll.create_clkout(self.cd_sys_ps, sys_clk_freq, phase=90)
SysPsFreq_2x(sys_clk_freq) == 2 * sys_clk_freq
SysPsFreq(sys_clk_freq) == sys_clk_freq

-----------------------------------------------------------------------------
(* Address map *)

Overlap(a, b) == a.base < b.base + b.size /\ b.base < a.base + a.size

NoOverlap(map) == \A a \in map : \A b \in map : a # b => ~Overlap(a, b)

\* the next free register block
CsrBase(map) ==
    MemMap.csr + CsrPage * Cardinality({e \in map : e.kind = "csr"})

\* add_csr(name)
AddCsr(map, name) ==
    map \cup {[name |-> name, kind |-> "csr", base |-> CsrBase(map), size |-> CsrPage]}

NoSdram == [present |-> FALSE, phy |-> "none", mode |-> "none", origin |-> 0,
            size |-> 0, l2_cache_size |-> 0, l2_cache_min_data_width |-> 0,
            l2_cache_reverse |-> FALSE, clock |-> "none"]

NoSoc == [exists |-> FALSE, platform |-> "none", address_map |-> {},
          sdram |-> NoSdram, peripherals |-> {}]

\* if not self.integrated_main_ram_size
SdramGuard_always(integrated_main_ram_size) == TRUE
SdramGuard_inverted(integrated_main_ram_size) == integrated_main_ram_size # 0
SdramGuard(integrated_main_ram_size) == integrated_main_ram_size = 0

\* self.add_sdram("sdram", phy, module = MT48LC32M8(sys_clk_freq, "1:1"), ...)
SdramConfig ==
    [present |-> TRUE, phy |-> "GENSDRPHY", mode |-> "1:1",
     origin |-> MemMap.main_ram, size |-> SdramSize,
     l2_cache_size |-> L2CacheSize,
     l2_cache_min_data_width |-> L2CacheMinDataWidth,
     l2_cache_reverse |-> TRUE, clock |-> "sys_ps"]

\* pads = platform.request_all("user_led")
LedPads_single(bound) == RequestSeq(bound, <<<<"user_led", 0>>>>)
LedPads(bound) == RequestAll(bound, "user_led")

\* sys_clk_freq = int(args.sys_clk_freq)
MainSysClkFreq_default(args) == DefaultSysClkFreq
MainSysClkFreq(args) == args.sys_clk_freq

-----------------------------------------------------------------------------
(* State *)

NoLast == [op |-> "none", r |-> <<"none", 0>>, loose |-> FALSE, pre |-> 0,
           f |-> 0, err |-> "none", sig |-> NoSig]

DefaultOpts == [args_freq |-> DefaultSysClkFreq,
                sys_clk_freq |-> DefaultSysClkFreq,
                integrated_main_ram_size |-> 0]

Init ==
    /\ pc = "import"
    /\ cur = "module"
    /\ opts = [b \in Builds |-> DefaultOpts]
    /\ platforms = [p \in Builds |-> NoBound]
    /\ constraints = [p \in Builds |-> <<>>]
    /\ crg = [b \in Builds |-> NoCrg]
    /\ soc = [b \in Builds |-> NoSoc]
    /\ err = [b \in Builds |-> "none"]
    /\ pins = [cpu_reset |-> TRUE, cclk |-> TRUE]
    /\ pll_reset = [b \in Builds |-> FALSE]
    /\ emitted = FALSE
    /\ last = NoLast

\* the platform the SoC under construction holds
Plat == soc[cur].platform

\* an error raised inside BaseSoC(...) or the build: the exception leaves the
\* caller without the object, and a failed import never reaches main()
Raise(e) ==
    /\ err' = [err EXCEPT ![cur] = e]
    /\ soc' = [soc EXCEPT ![cur] = NoSoc]
    /\ crg' = [crg EXCEPT ![cur] = NoCrg]
    /\ pll_reset' = [pll_reset EXCEPT ![cur] = FALSE]
    /\ pc' = IF cur = "module" THEN "crashed" ELSE "failed"

-----------------------------------------------------------------------------
(* The script *)

\* soc = BaseSoC()
ModuleSoc ==
    /\ pc = "import"
    /\ cur' = "module"
    /\ opts' = [opts EXCEPT !["module"] = DefaultOpts]
    /\ pc' = "platform"
    /\ UNCHANGED <<platforms, constraints, crg, soc, err, pins, pll_reset,
                   emitted, last>>

\* main(): the options parsed, BaseSoC(sys_clk_freq = ..., **soc_sdram_argdict(args))
MainArgs ==
    /\ pc = "main"
    /\ \E f \in Freqs, ir \in IntegratedMainRamSizes :
          opts' = [opts EXCEPT !["main"] =
                     [args_freq |-> f,
                      sys_clk_freq |-> MainSysClkFreq([sys_clk_freq |-> f]),
                      integrated_main_ram_size |-> ir]]
    /\ cur' = "main"
    /\ pc' = "platform"
    /\ UNCHANGED <<platforms, constraints, crg, soc, err, pins, pll_reset,
                   emitted, last>>

\* platform = Platform()
NewPlatform ==
    /\ pc = "platform"
    /\ soc' = [soc EXCEPT ![cur] = [NoSoc EXCEPT !.platform = PlatformOf(cur)]]
    /\ pc' = "soccore"
    /\ UNCHANGED <<cur, opts, platforms, constraints, crg, err, pins,
                   pll_reset, emitted, last>>

\* SoCCore.__init__(self, platform, sys_clk_freq, ..., **kwargs)
SoCCoreInit ==
    /\ pc = "soccore"
    /\ LET ir == opts[cur].integrated_main_ram_size IN
       soc' = [soc EXCEPT ![cur].address_map =
                 IF ir = 0 THEN {}
                 ELSE {[name |-> "main_ram", kind |-> "integrated",
                        base |-> MemMap.main_ram, size |-> ir]}]
    /\ pc' = "crg_reset"
    /\ UNCHANGED <<cur, opts, platforms, constraints, crg, err, pins,
                   pll_reset, emitted, last>>

\* _CRG.__init__: the clock domains, the PLL and its reset
CrgReset ==
    /\ pc = "crg_reset"
    /\ LET q == RequestSeq(platforms[Plat], InhibitInputs) IN
       /\ platforms' = [platforms EXCEPT ![Plat] = q.bound]
       /\ IF q.err # "none"
          THEN Raise(q.err)
          ELSE /\ crg' = [crg EXCEPT ![cur].reset_inputs =
                            {InhibitInputs[i][1] : i \in 1..Len(InhibitInputs)}]
               /\ pll_reset' = [pll_reset EXCEPT ![cur] =
                                  PllReset(pins.cpu_reset, pins.cclk)]
               /\ pc' = "crg_clkin"
               /\ UNCHANGED <<soc, err>>
    /\ UNCHANGED <<cur, opts, constraints, pins, emitted, last>>

\* pll.register_clkin(platform.request("clk50"), 50e6)
CrgClkin ==
    /\ pc = "crg_clkin"
    /\ LET q == Request(platforms[Plat], <<"clk50", 0>>, FALSE)
           c == RegisterInput(crg[cur], q.sig, ClkinFreq)
       IN
       /\ platforms' = [platforms EXCEPT ![Plat] = q.bound]
       /\ IF q.err # "none"
          THEN Raise(q.err)
          ELSE IF c.err # "none"
          THEN Raise(c.err)
          ELSE /\ crg' = [crg EXCEPT ![cur] = c.crg]
               /\ pc' = "crg_sys"
               /\ UNCHANGED <<soc, err, pll_reset>>
    /\ UNCHANGED <<cur, opts, constraints, pins, emitted, last>>

\* pll.create_clkout(self.cd_sys, sys_clk_freq)
CrgSys ==
    /\ pc = "crg_sys"
    /\ LET c == CreateDomain(crg[cur], "sys", opts[cur].sys_clk_freq, 0, FALSE) IN
       IF c.err # "none"
       THEN Raise(c.err)
       ELSE /\ crg' = [crg EXCEPT ![cur] = c.crg]
            /\ pc' = "crg_sys_ps"
            /\ UNCHANGED <<soc, err, pll_reset>>
    /\ UNCHANGED <<cur, opts, platforms, constraints, pins, emitted, last>>

\* pll.create_clkout(self.cd_sys_ps, sys_clk_freq, phase=90)
CrgSysPs ==
    /\ pc = "crg_sys_ps"
    /\ LET c == CreateDomain(crg[cur], "sys_ps",
                             SysPsFreq(opts[cur].sys_clk_freq), SysPsPhase, TRUE) IN
       IF c.err # "none"
       THEN Raise(c.err)
       ELSE /\ crg' = [crg EXCEPT ![cur] = c.crg]
            /\ pc' = "crg_sdram_clock"
            /\ UNCHANGED <<soc, err, pll_reset>>
    /\ UNCHANGED <<cur, opts, platforms, constraints, pins, emitted, last>>

\* DDROutput(1, 0, platform.request("sdram_clock"), ClockSignal("sys_ps"))
CrgSdramClock ==
    /\ pc = "crg_sdram_clock"
    /\ LET q == Request(platforms[Plat], <<"sdram_clock", 0>>, FALSE) IN
       /\ platforms' = [platforms EXCEPT ![Plat] = q.bound]
       /\ IF q.err # "none"
          THEN Raise(q.err)
          ELSE /\ pc' = "sdram"
               /\ UNCHANGED <<soc, crg, err, pll_reset>>
    /\ UNCHANGED <<cur, opts, constraints, pins, emitted, last>>

\* if not self.integrated_main_ram_size: GENSDRPHY(platform.request("sdram")),
\* self.add_sdram("sdram", ...)
Sdram ==
    /\ pc = "sdram"
    /\ IF SdramGuard(opts[cur].integrated_main_ram_size)
       THEN LET q == Request(platforms[Plat], <<"sdram", 0>>, FALSE) IN
            /\ platforms' = [platforms EXCEPT ![Plat] = q.bound]
            /\ IF q.err # "none"
               THEN Raise(q.err)
               ELSE /\ soc' = [soc EXCEPT
                          ![cur].sdram = SdramConfig,
                          ![cur].address_map = @ \cup
                             {[name |-> "main_ram", kind |-> "sdram",
                               base |-> SdramConfig.origin,
                               size |-> SdramConfig.size]}]
                    /\ pc' = "dna"
                    /\ UNCHANGED <<crg, err, pll_reset>>
       ELSE /\ pc' = "dna"
            /\ UNCHANGED <<platforms, soc, crg, err, pll_reset>>
    /\ UNCHANGED <<cur, opts, constraints, pins, emitted, last>>

\* self.submodules.dna = dna.DNA(); self.add_csr("dna")
Dna ==
    /\ pc = "dna"
    /\ soc' = [soc EXCEPT
          ![cur].peripherals = @ \cup {[name |-> "dna", pads |-> <<>>]},
          ![cur].address_map = AddCsr(@, "dna")]
    /\ pc' = "leds"
    /\ UNCHANGED <<cur, opts, platforms, constraints, crg, err, pins,
                   pll_reset, emitted, last>>

\* self.submodules.leds = LedChaser(pads = platform.request_all("user_led"), ...)
\* self.add_csr("leds"); the constructor returns
Leds ==
    /\ pc = "leds"
    /\ LET q == LedPads(platforms[Plat]) IN
       /\ platforms' = [platforms EXCEPT ![Plat] = q.bound]
       /\ IF q.err # "none"
          THEN Raise(q.err)
          ELSE /\ soc' = [soc EXCEPT
                     ![cur].peripherals = @ \cup {[name |-> "leds", pads |-> q.sigs]},
                     ![cur].address_map = AddCsr(@, "leds"),
                     ![cur].exists = TRUE]
               /\ pc' = IF cur = "module" THEN "main" ELSE "builder"
               /\ UNCHANGED <<crg, err, pll_reset>>
    /\ UNCHANGED <<cur, opts, constraints, pins, emitted, last>>

\* builder.build(run=args.build): the graph is finalized
BuildFinalize ==
    /\ pc = "builder"
    /\ LET c == Finalize(crg[cur]) IN
       IF c.err # "none"
       THEN Raise(c.err)
       ELSE /\ crg' = [crg EXCEPT ![cur] = c.crg]
            /\ pc' = "do_finalize"
            /\ UNCHANGED <<soc, err, pll_reset>>
    /\ UNCHANGED <<cur, opts, platforms, constraints, pins, emitted, last>>

\* Platform.do_finalize
DoFinalize ==
    /\ pc = "do_finalize"
    /\ LET q == Request(platforms[Plat], <<"clk50", 0>>, FinalizeLoose) IN
       /\ platforms' = [platforms EXCEPT ![Plat] = q.bound]
       /\ IF q.err # "none"
          THEN /\ Raise(q.err)
               /\ UNCHANGED constraints
          ELSE /\ constraints' = [constraints EXCEPT ![Plat] =
                                    @ \o PeriodConstraints(q.sig, crg[cur].domains)]
               /\ pc' = "validate"
               /\ UNCHANGED <<soc, crg, err, pll_reset>>
    /\ UNCHANGED <<cur, opts, pins, emitted, last>>

\* the global validation of the composed graph
Validate ==
    /\ pc = "validate"
    /\ IF /\ NoOverlap(soc[cur].address_map)
          /\ soc[cur].sdram.present =>
               \E d \in crg[cur].domains : d.name = soc[cur].sdram.clock
       THEN /\ pc' = "emit"
            /\ UNCHANGED <<soc, crg, err, pll_reset>>
       ELSE Raise("CompositionError")
    /\ UNCHANGED <<cur, opts, platforms, constraints, pins, emitted, last>>

\* the build output is handed to the toolchain
Emit ==
    /\ pc = "emit"
    /\ emitted' = TRUE
    /\ pc' = "done"
    /\ UNCHANGED <<cur, opts, platforms, constraints, crg, soc, err, pins,
                   pll_reset, last>>

-----------------------------------------------------------------------------
(* Calls on the built graph, and the board's pins *)

\* platform.request(name, index, loose) by a later caller
ProbeRequest ==
    /\ pc = "done"
    /\ \E r \in Catalog \cup {Unknown}, loose \in BOOLEAN :
          LET p == soc["main"].platform
              q == Request(platforms[p], r, loose)
          IN /\ platforms' = [platforms EXCEPT ![p] = q.bound]
             /\ last' = [op |-> "request", r |-> r, loose |-> loose,
                         pre |-> IF r \in Catalog THEN platforms[p][r] ELSE 0,
                         f |-> 0, err |-> q.err, sig |-> q.sig]
    /\ UNCHANGED <<pc, cur, opts, constraints, crg, soc, err, pins,
                   pll_reset, emitted>>

\* create_domain on the finalized graph
ProbeCreateDomain ==
    /\ pc = "done"
    /\ \E f \in Freqs :
          LET c == CreateDomain(crg["main"], "late", f, 0, FALSE) IN
          /\ crg' = [crg EXCEPT !["main"] = c.crg]
          /\ last' = [NoLast EXCEPT !.op = "create_domain", !.f = f,
                                    !.err = c.err]
    /\ UNCHANGED <<pc, cur, opts, platforms, constraints, soc, err, pins,
                   pll_reset, emitted>>

\* finalize on the finalized graph
ProbeFinalize ==
    /\ pc = "done"
    /\ LET c == Finalize(crg["main"]) IN
       /\ crg' = [crg EXCEPT !["main"] = c.crg]
       /\ last' = [NoLast EXCEPT !.op = "finalize", !.err = c.err]
    /\ UNCHANGED <<pc, cur, opts, platforms, constraints, soc, err, pins,
                   pll_reset, emitted>>

\* the board drives cpu_reset and cclk; the reset follows combinationally
DrivePins ==
    /\ pc = "done"
    /\ \E a \in BOOLEAN, b \in BOOLEAN :
          /\ pins' = [cpu_reset |-> a, cclk |-> b]
          /\ pll_reset' = [x \in Builds |->
                             IF crg[x].reset_inputs # {}
                             THEN PllReset(a, b) ELSE pll_reset[x]]
    /\ UNCHANGED <<pc, cur, opts, platforms, constraints, crg, soc, err,
                   emitted, last>>

Next ==
    \/ ModuleSoc
    \/ MainArgs
    \/ NewPlatform
    \/ SoCCoreInit
    \/ CrgReset
    \/ CrgClkin
    \/ CrgSys
    \/ CrgSysPs
    \/ CrgSdramClock
    \/ Sdram
    \/ Dna
    \/ Leds
    \/ BuildFinalize
    \/ DoFinalize
    \/ Validate
    \/ Emit
    \/ ProbeRequest
    \/ ProbeCreateDomain
    \/ ProbeFinalize
    \/ DrivePins

Spec == Init /\ [][Next]_vars

-----------------------------------------------------------------------------
(* Properties *)

Clk50 == <<"clk50", 0>>

\* the build b has left BaseSoC.__init__'s memory section behind
PastSdram(b) == soc[b].exists \/ (cur = b /\ pc \in {"dna", "leds"})

\* main's BaseSoC(...) has returned or raised
MainEnded ==
    cur = "main" /\
    pc \in {"builder", "do_finalize", "validate", "emit", "done", "failed"}

MemoryEntries(b) == {e \in soc[b].address_map : e.kind # "csr"}

\* C1: a resource is bound at most once; a second request of a bound resource
\* fails with ResourceAlreadyBoundError without loose and returns the first
\* binding with loose; the requests of a build (cpu_reset, cclk, clk50,
\* sdram_clock, sdram, the user_leds, the loose clk50 lookup) never collide,
\* and the lookup yields the binding the CRG registered as its input.
C1_ExclusiveBinding ==
    /\ \A p \in Builds : \A r \in Catalog : platforms[p][r] <= 1
    /\ (last.op = "request" /\ last.pre > 0 /\ ~last.loose) =>
          (last.err = "ResourceAlreadyBoundError" /\ last.sig = NoSig)
    /\ (last.op = "request" /\ last.pre > 0 /\ last.loose) =>
          (last.err = "none" /\ last.sig = <<last.r, 1>>)
    /\ \A b \in Builds : err[b] # "ResourceAlreadyBoundError"
    /\ (cur = "main" /\ pc \in {"validate", "emit", "done"}) =>
          /\ Len(constraints["main"]) >= 1
          /\ constraints["main"][1].clk = crg["main"].input
          /\ crg["main"].input = <<Clk50, 1>>

C1_Witness ==
    /\ pc = "done"
    /\ last.op = "request" /\ last.r = Clk50 /\ last.pre = 1 /\ ~last.loose
    /\ last.err = "ResourceAlreadyBoundError"
    /\ \A i \in 0..7 : platforms["main"][<<"user_led", i>>] = 1

\* C2: the PLL reset is asserted exactly when at least one of the configured
\* inhibit inputs (cpu_reset, cclk) is low: reset = ~(cpu_reset /\ cclk).
C2_ResetTruthTable ==
    \A b \in Builds :
       crg[b].reset_inputs # {} =>
          /\ crg[b].reset_inputs = {"cpu_reset", "cclk"}
          /\ pll_reset[b] <=> (\E i \in crg[b].reset_inputs : ~pins[i])
          /\ pll_reset[b] <=> ~(pins.cpu_reset /\ pins.cclk)

C2_Witness ==
    /\ pc = "done"
    /\ pins.cpu_reset /\ ~pins.cclk
    /\ pll_reset["main"]

\* C3: the address map never holds two intersecting entries, during and after
\* composition, with external SDRAM and with integrated main RAM alike, so
\* the validation never rejects a graph for an overlap.
C3_NoOverlap ==
    \A b \in Builds :
       /\ \A x \in soc[b].address_map : \A y \in soc[b].address_map :
             x # y => (x.base + x.size <= y.base \/ y.base + y.size <= x.base)
       /\ err[b] # "CompositionError"

C3_Witness ==
    /\ pc = "done"
    /\ opts["main"].integrated_main_ram_size # 0
    /\ Cardinality(soc["main"].address_map) = 3
    /\ Cardinality(soc["module"].address_map) = 3

AllUserLedPads == [i \in 1..8 |-> <<<<"user_led", i - 1>>, 1>>]

\* C4: the build at 66_666_666 Hz with the external memory succeeds; its graph
\* has exactly one memory region, of size 0x2000000 at the main_ram origin,
\* the domain sys and exactly one 90-degree domain (sys_ps, reset-less, same
\* frequency), and the peripherals dna and leds (all 8 user_led pads), each
\* with a register block of its own.
C4_DefaultBuild ==
    /\ err["module"] = "none" /\ pc # "crashed"
    /\ \A b \in Builds :
         (/\ opts[b].args_freq = 66666666
          /\ opts[b].integrated_main_ram_size = 0) =>
            /\ err[b] = "none"
            /\ cur = b => pc # "failed"
            /\ soc[b].exists =>
                 /\ MemoryEntries(b) =
                      {[name |-> "main_ram", kind |-> "sdram",
                        base |-> MemMap.main_ram, size |-> 33554432]}
                 /\ {d \in crg[b].domains : d.phase # 0} =
                      {d \in crg[b].domains :
                          /\ d.name = "sys_ps" /\ d.phase = 90
                          /\ d.reset_less /\ d.freq = 66666666}
                 /\ Cardinality({d \in crg[b].domains : d.phase = 90}) = 1
                 /\ \E d \in crg[b].domains :
                       /\ d.name = "sys" /\ d.phase = 0
                       /\ ~d.reset_less /\ d.freq = 66666666
                 /\ soc[b].peripherals =
                      {[name |-> "dna", pads |-> <<>>],
                       [name |-> "leds", pads |-> AllUserLedPads]}
                 /\ \E x \in soc[b].address_map, y \in soc[b].address_map :
                       /\ x.name = "dna" /\ y.name = "leds"
                       /\ x.kind = "csr" /\ y.kind = "csr"
                       /\ (x.base + x.size <= y.base \/ y.base + y.size <= x.base)
                 /\ Cardinality({e \in soc[b].address_map : e.kind = "csr"}) = 2

C4_Witness ==
    /\ pc = "done" /\ emitted
    /\ opts["main"].args_freq = 66666666
    /\ opts["main"].integrated_main_ram_size = 0
    /\ soc["main"].exists /\ soc["module"].exists

\* C5: the build at 999 Hz fails with UnsupportedRatioError while the CRG is
\* composed: no SoC object, address-map entry or clock domain of it remains,
\* the builder is never reached and nothing is emitted.
C5_UnsupportedBuild ==
    (cur = "main" /\ opts["main"].args_freq = 999) =>
       /\ pc \in {"platform", "soccore", "crg_reset", "crg_clkin", "crg_sys",
                  "failed"}
       /\ ~emitted
       /\ pc = "failed" =>
            /\ err["main"] = "UnsupportedRatioError"
            /\ ~soc["main"].exists
            /\ soc["main"].address_map = {}
            /\ crg["main"].domains = {}
            /\ constraints["main"] = <<>>

C5_Witness ==
    /\ pc = "failed"
    /\ opts["main"].args_freq = 999
    /\ err["main"] = "UnsupportedRatioError"

C7_FinalizedIsFinal ==
    /\ [](last.op \in {"create_domain", "finalize"} =>
             (last.err = "GraphFinalizedError" /\ crg["main"].state = "finalized"))
    /\ [][\A b \in Builds :
             crg[b].state = "finalized" =>
                (crg'[b].state = "finalized" /\ crg'[b].domains = crg[b].domains)]_vars

C7_Witness ==
    /\ last.op = "create_domain" /\ last.f = 25000000
    /\ last.err = "GraphFinalizedError"
    /\ crg["main"].state = "finalized"
    /\ Cardinality(crg["main"].domains) = 2

C10_SdramIffNoIntegratedRam ==
    \A b \in Builds :
       PastSdram(b) =>
          LET ir == opts[b].integrated_main_ram_size
              sd == {e \in soc[b].address_map : e.kind = "sdram"}
          IN
          /\ ir # 0 =>
                /\ last = NoLast => platforms[soc[b].platform][<<"sdram", 0>>] = 0
                /\ ~soc[b].sdram.present
                /\ sd = {}
          /\ ir = 0 =>
                /\ platforms[soc[b].platform][<<"sdram", 0>>] = 1
                /\ soc[b].sdram =
                     [present |-> TRUE, phy |-> "GENSDRPHY", mode |-> "1:1",
                      origin |-> MemMap.main_ram, size |-> 33554432,
                      l2_cache_size |-> 1024, l2_cache_min_data_width |-> 128,
                      l2_cache_reverse |-> TRUE, clock |-> "sys_ps"]
                /\ sd = {[name |-> "main_ram", kind |-> "sdram",
                          base |-> MemMap.main_ram, size |-> 33554432]}
                /\ \E d \in crg[b].domains : d.name = "sys_ps" /\ d.phase = 90

C10_Witness ==
    /\ pc = "done" /\ last = NoLast
    /\ opts["main"].integrated_main_ram_size # 0
    /\ ~soc["main"].sdram.present
    /\ soc["module"].sdram.present

=============================================================================
